---- MODULE Spec2Model ----
(***************************************************************************)
(* A model of the stock-rag retrieval-augmented query pipeline:            *)
(*   - TextChunker.chunk_text          (rag_pipeline/utils/chunking.py)    *)
(*   - QueryProcessor, LLMService      (rag_pipeline/services)             *)
(*   - QueryView.post                  (rag_pipeline/views.py)             *)
(*   - DocumentProcessor               (rag_pipeline/services)             *)
(*   - ingest_documents                (rag_pipeline/management/commands)  *)
(*                                                                         *)
(* SpecChunk runs one call of chunk_text, one loop iteration per step.     *)
(* SpecSection runs it on a text whose sentences hold section keywords.    *)
(* SpecQuery runs one POST to the query endpoint, one collaborator call    *)
(* per step.                                                               *)
(* SpecFallback runs one call of generate_answer on its own, one provider  *)
(* per step, with the text of the answer.                                  *)
(* SpecIngest runs one call of process_document, one statement or          *)
(* collaborator call per step, with runs of populate_embeddings at any     *)
(* moment, one statement per step.                                         *)
(* SpecConcurrent runs two POSTs to the query endpoint at once.            *)
(* SpecCommand runs the ingest_documents command again and again, one      *)
(* statement or collaborator call per step, with creations of Documents    *)
(* by another client and runs of populate_embeddings at any moment.        *)
(***************************************************************************)
EXTENDS Integers, Sequences, FiniteSets, TLC

(***************************************************************************)
(* Bounds of the model.                                                    *)
(***************************************************************************)
MaxSentences == 4
MaxSentenceTokens == 4
MaxChunkSize == 3
MaxOverlap == 2
MaxRows == 3
MaxTopK == 3
MaxUnits == 3
MaxLabelledSentences == 2
MaxTextLen == 5
MaxSharedRows == 2
MaxRuns == 2
MaxDocChunks == 1

VARIABLES
    \* ---- TextChunker ----
    sentences,       \* _split_into_sentences(text): sentence i is modelled by
                     \* len(encoding.encode(sentence)); 0 stands for a sentence
                     \* encode() raises on (it holds special-token text)
    words,           \* what sentence i says: the phrases occurring in it,
                     \* each in small letters or in capitals
    chunk_size,      \* self.chunk_size
    overlap,         \* self.overlap
    pos,             \* number of sentences the for loop has consumed
    current_chunk,   \* the pending buffer: positions of its sentences
    current_tokens,  \* the running token count of the buffer
    chunks,          \* the chunks appended so far / returned
    cpc,             \* "loop", "returned" (line 63) or "except" (line 67)
    \* ---- the query endpoint ----
    index,           \* the rows of chunks JOIN documents JOIN embeddings; row
                     \* i is chunk i: its document's year and, in tenths, its
                     \* cosine similarity to the query embedding
    openai_client,   \* LLMService.openai_client is set (OPENAI_API_KEY given)
    request,         \* the POSTed data: valid, year, top_k
    qpc,             \* where the request is
    relevant_chunks, \* what _retrieve_chunks returned
    invoked,         \* the generator tiers called so far, with their outcome
    answer,          \* what generate_answer returned
    result,          \* what process_query returned
    raised,          \* the exception process_query raised, "" when none
    response,        \* the Response of QueryView.post
    history,         \* the QueryHistory rows
    \* ---- LLMService.generate_answer on its own ----
    ranked_units,    \* its chunks argument: similarity (tenths) and the
                     \* length of chunk_text of each
    attempts,        \* the providers it has called, with their outcome
    answer_text,     \* the string it returned, as its parts in order
    fpc,             \* "call", "openai", "basic" or "returned"
    \* ---- DocumentProcessor.process_document ----
    ipc,             \* where the call is
    call_year,       \* its year argument
    text,            \* parsed_content['full_text'], character by character
    documents,       \* the rows of table documents; the id is the position
    chunk_rows,      \* the rows of table chunks, in the order written; the
                     \* id is the position
    embedding_rows,  \* the rows of table embeddings, by their key chunk_id
    chunk_i,         \* i of the for loop of _store_chunks_and_embeddings
    chunk_count,     \* its chunk_count
    django_docs,     \* the Document objects, in their Meta.ordering
    ingest_result,   \* what process_document returned
    found_doc,       \* django_doc of _update_document_status: what .first()
                     \* gave it, <<>> for None and before the call
    \* ---- the populate_embeddings command ----
    ppc,             \* "idle", or "loop" inside its for loop
    chunks_to_process, \* the ids its SELECT gave that the loop has still
                     \* to go through
    \* ---- two POSTs to the query endpoint at once ----
    calls,           \* the locals of each QueryView.post in progress; the
                     \* database (index, history) and the settings
                     \* (openai_client) are what the two share
    \* ---- the ingest_documents command ----
    cmd_pc,          \* "idle", "loop" at the head of the for loop of
                     \* handle, "process" from get_or_create's creation
                     \* to the outcome written, or "save" before the save
                     \* of a failed Document
    todo,            \* the years of the entries of `documents` still to
                     \* be iterated over
    runs,            \* the runs of the command so far: the --year of each
                     \* (0 without) and how it ended
    output,          \* what the latest run of handle wrote to stdout: a
                     \* line about each entry and the closing line
    last_create,     \* the latest Document.objects.create and its outcome
    success_count    \* success_count of handle

chunkVars == <<sentences, words, chunk_size, overlap, pos, current_chunk,
               current_tokens, chunks, cpc>>

queryVars == <<index, openai_client, request, qpc, relevant_chunks, invoked,
               answer, result, raised, response, history>>

fallbackVars == <<ranked_units, attempts, answer_text, fpc>>

ingestVars == <<ipc, call_year, text, documents, chunk_rows, embedding_rows,
                chunk_i, chunk_count, django_docs, ingest_result, found_doc>>

populateVars == <<ppc, chunks_to_process>>

commandVars == <<cmd_pc, todo, runs, output, last_create, success_count>>

vars == <<chunkVars, queryVars, fallbackVars, ingestVars, populateVars, calls,
          commandVars>>

\* what a step of the chunker leaves alone
notChunkVars == <<queryVars, fallbackVars, ingestVars, populateVars, calls,
                  commandVars>>

\* what a step of the query endpoint leaves alone
notQueryVars == <<chunkVars, fallbackVars, ingestVars, populateVars, calls,
                  commandVars>>

\* what a step of _generate_basic_response leaves alone
notFallbackVars == <<chunkVars, queryVars, ingestVars, populateVars, calls,
                     commandVars>>

\* what a step of process_document outside chunk_text leaves alone
notIngestVars == <<queryVars, fallbackVars, populateVars, calls, commandVars>>

\* what a step of populate_embeddings leaves alone: all but its locals and
\* the table embeddings
notPopulateVars == <<chunkVars, queryVars, fallbackVars, calls, commandVars,
                     ipc, call_year, text, documents, chunk_rows, chunk_i,
                     chunk_count, django_docs, ingest_result, found_doc>>

\* what a step of one of two concurrent POSTs leaves alone: all but the
\* locals of the calls and the QueryHistory table
notCallVars == <<chunkVars, fallbackVars, ingestVars, populateVars,
                 commandVars, index,
                 openai_client, request, qpc, relevant_chunks, invoked,
                 answer, result, raised, response>>

\* the chunker's own state: all of it but the list it returns
chunkerLocals == <<sentences, words, chunk_size, overlap, pos, current_chunk,
                   current_tokens, cpc>>

\* the locals of a call of process_document
callLocals == <<ipc, call_year, chunks, chunk_i, chunk_count, ingest_result,
                found_doc>>

\* the tables documents, chunks and embeddings
tables == <<documents, chunk_rows, embedding_rows>>

\* what a step of the ingest command or of a Document creation leaves
\* alone: all but the command's locals, those of its call of
\* process_document, the Document objects and the tables
notCommandVars == <<chunkerLocals, queryVars, fallbackVars, populateVars,
                    calls, text>>

(***************************************************************************)
(* Helpers.                                                                *)
(***************************************************************************)
SeqsUpTo(S, n) == UNION {[1..k -> S] : k \in 0..n}

Last(s) == s[Len(s)]

Min(a, b) == IF a <= b THEN a ELSE b

RECURSIVE SumSeq(_)
SumSeq(s) == IF s = <<>> THEN 0 ELSE s[1] + SumSeq(Tail(s))

Iota(n) == [k \in 1..n |-> k]

(***************************************************************************)
(* TextChunker                                                             *)
(***************************************************************************)
\* len(self.encoding.encode(sentence)) for the sentence at position p
Tokens(p) == sentences[p]

\* encoding.encode raises on the sentence at position p
EncodeRaises(p) == sentences[p] < 1

\* sum(len(self.encoding.encode(s)) for s in current_chunk)
ChunkTokens(c) == SumSeq([k \in 1..Len(c) |-> Tokens(c[k])])

\* the overlap the configured parameter describes: the last `overlap`
\* sentences, none when there are <= overlap
GetOverlapChunkConfigured(previous_chunk) ==
    IF Len(previous_chunk) <= overlap
    THEN <<>>
    ELSE SubSeq(previous_chunk, Len(previous_chunk) - overlap + 1,
                Len(previous_chunk))

\* _get_overlap_chunk: the last two sentences, none when there are <= 2
GetOverlapChunk(previous_chunk) ==
    IF Len(previous_chunk) <= 2
    THEN <<>>
    ELSE SubSeq(previous_chunk, Len(previous_chunk) - 1, Len(previous_chunk))

\* _detect_section: the labels in the order they are tried, each with the
\* keywords that select it
SectionKeywords ==
    << [section |-> "MD&A",
        keywords |-> {"management discussion", "md&a", "operating results"}],
       [section |-> "Financial Statements",
        keywords |-> {"consolidated statements", "balance sheet",
                      "income statement", "cash flow"}],
       [section |-> "Risk Factors",
        keywords |-> {"risk factors", "risks and uncertainties"}],
       [section |-> "Business Overview",
        keywords |-> {"business overview", "products and services",
                      "market"}] >>

AllKeywords == UNION {SectionKeywords[k].keywords : k \in 1..Len(SectionKeywords)}

\* what a sentence can say: a keyword, a word that holds the keyword
\* "market", or a word that holds none; in small letters or in capitals
Phrases ==
    [phrase : AllKeywords \cup {"marketing", "revenue"}, capitals : BOOLEAN]

\* str.lower of a phrase
Lower(ph) == [ph EXCEPT !.capitals = FALSE]

\* "keyword in text" for a text made of the phrases in chunk_text: a substring
\* test, which tells capitals from small letters
KeywordIn(keyword, chunk_text) ==
    \E ph \in chunk_text :
        /\ ~ph.capitals
        /\ \/ ph.phrase = keyword
           \/ (ph.phrase = "marketing" /\ keyword = "market")

\* ' '.join(current_chunk), as the phrases of the joined text; a keyword has
\* no sentence-ending character in it, so joining makes no new occurrence
JoinWords(sents) == UNION {words[sents[k]] : k \in 1..Len(sents)}

\* _detect_section, lines 84-104
DetectSection(chunk_text) ==
    LET text_lower == {Lower(ph) : ph \in chunk_text}
        hits == {k \in 1..Len(SectionKeywords) :
                    \E keyword \in SectionKeywords[k].keywords :
                        KeywordIn(keyword, text_lower)}
    IN IF hits = {}
       THEN "Other"
       ELSE SectionKeywords[CHOOSE k \in hits : \A j \in hits : k <= j].section

\* the dictionary appended at lines 41-45 and 57-61
MakeChunk(sents, tokens) ==
    [sents |-> sents, token_count |-> tokens,
     section |-> DetectSection(JoinWords(sents))]

\* the dictionary returned at line 67: the whole text, no token
ExceptChunk ==
    [sents |-> Iota(Len(sentences)), token_count |-> 0, section |-> "Unknown"]

\* a text of sentences of any token count that says nothing _detect_section
\* looks for
ChunkInit ==
    /\ sentences \in SeqsUpTo(0..MaxSentenceTokens, MaxSentences)
    /\ words = [p \in 1..Len(sentences) |-> {}]
    /\ chunk_size \in 1..MaxChunkSize
    /\ overlap \in 0..MaxOverlap
    /\ pos = 0
    /\ current_chunk = <<>>
    /\ current_tokens = 0
    /\ chunks = <<>>
    /\ cpc = "loop"

\* one iteration of the for loop, lines 35-52
ChunkTextLoop ==
    /\ cpc = "loop"
    /\ pos < Len(sentences)
    /\ ~EncodeRaises(pos + 1)
    /\ LET p == pos + 1
           sentence_tokens == Tokens(p)
           close == current_tokens + sentence_tokens > chunk_size
                    /\ current_chunk # <<>>
           seed == IF close THEN GetOverlapChunk(current_chunk)
                   ELSE current_chunk
           seed_tokens == IF close THEN ChunkTokens(seed) ELSE current_tokens
       IN /\ chunks' = IF close
                       THEN Append(chunks, MakeChunk(current_chunk, current_tokens))
                       ELSE chunks
          /\ current_chunk' = Append(seed, p)
          /\ current_tokens' = seed_tokens + sentence_tokens
          /\ pos' = p
    /\ UNCHANGED <<notChunkVars, sentences, words, chunk_size, overlap, cpc>>

\* the final flush without the "if current_chunk" append
ChunkTextReturnNoFlush ==
    /\ cpc = "loop"
    /\ pos = Len(sentences)
    /\ cpc' = "returned"
    /\ UNCHANGED <<notChunkVars, sentences, words, chunk_size, overlap, pos, current_chunk,
                   current_tokens, chunks>>

\* lines 54-63: the final chunk and the return
ChunkTextReturn ==
    /\ cpc = "loop"
    /\ pos = Len(sentences)
    /\ chunks' = IF current_chunk # <<>>
                 THEN Append(chunks, MakeChunk(current_chunk, current_tokens))
                 ELSE chunks
    /\ cpc' = "returned"
    /\ UNCHANGED <<notChunkVars, sentences, words, chunk_size, overlap, pos, current_chunk,
                   current_tokens>>

\* lines 65-67: encode raised at line 36; the whole text comes back as one
\* chunk with token_count 0
ChunkTextExcept ==
    /\ cpc = "loop"
    /\ pos < Len(sentences)
    /\ EncodeRaises(pos + 1)
    /\ chunks' = <<ExceptChunk>>
    /\ cpc' = "except"
    /\ UNCHANGED <<notChunkVars, sentences, words, chunk_size, overlap, pos, current_chunk,
                   current_tokens>>

ChunkNext == ChunkTextLoop \/ ChunkTextReturn \/ ChunkTextExcept

\* a text of at most MaxLabelledSentences sentences, each saying at most one
\* phrase
SectionInit ==
    /\ sentences \in SeqsUpTo(0..1, MaxLabelledSentences)
    /\ words \in [1..Len(sentences) -> {{}} \cup {{ph} : ph \in Phrases}]
    /\ chunk_size \in 1..2
    /\ overlap = 0
    /\ pos = 0
    /\ current_chunk = <<>>
    /\ current_tokens = 0
    /\ chunks = <<>>
    /\ cpc = "loop"

\* the chunker at rest, while the query endpoint runs
ChunkUnused ==
    /\ sentences = <<>>
    /\ words = <<>>
    /\ chunk_size = 1
    /\ overlap = 0
    /\ pos = 0
    /\ current_chunk = <<>>
    /\ current_tokens = 0
    /\ chunks = <<>>
    /\ cpc = "returned"

(***************************************************************************)
(* The query endpoint: QueryView.post -> QueryProcessor.process_query ->   *)
(* LLMService.generate_answer.                                             *)
(*                                                                         *)
(* Similarities are integers in tenths (9 is 0.9); a confidence is an      *)
(* integer in units of 1/ConfOne.                                          *)
(***************************************************************************)
Years == {2023, 2024}

Sims == {-5, 6, 9, 10}

\* "3.0" of min(len(chunks) / 3.0, 1.0)
FullFactorChunks == 3

\* the confidence 1.0
ConfOne == 10 * FullFactorChunks

NoAnswer == [kind |-> "none", chunk |-> 0]

\* 'No relevant information found for your query.'
NoRelevantInformation == [kind |-> "no_info", chunk |-> 0]

\* the stripped completion of a provider; "blank" is the empty string
ProviderText(tier) == [kind |-> tier, chunk |-> 0]

BlankText == [kind |-> "blank", chunk |-> 0]

NoResult == [answer |-> NoAnswer, sources |-> <<>>, confidence |-> 0]

NoResponse ==
    [status |-> 0, answer |-> NoAnswer, sources |-> <<>>, confidence |-> 0,
     error |-> ""]

\* QueryRequestSerializer: query = CharField(max_length=1000)
MaxQueryLength == 1000

\* QueryRequestSerializer: top_k = IntegerField(default=5, min_value=1,
\* max_value=20)
TopKDefault == 5

TopKMin == 1

TopKMax == 20

NotGiven == [given |-> FALSE, value |-> 0]

Given(v) == [given |-> TRUE, value |-> v]

\* request.data: the query by its length, the year, top_k; each may be missing
PostedData ==
    [query : {NotGiven} \cup {Given(n) : n \in {0, MaxQueryLength,
                                                MaxQueryLength + 1}},
     year : {NotGiven} \cup {Given(y) : y \in Years},
     top_k : {NotGiven} \cup {Given(k) : k \in (0..MaxTopK)
                                  \cup {TopKMax, TopKMax + 1}}]

NoData == [query |-> NotGiven, year |-> NotGiven, top_k |-> NotGiven]

NoRequest == [valid |-> FALSE, year |-> 0, top_k |-> 0, data |-> NoData]

\* QueryRequestSerializer.is_valid without the max_value of top_k
IsValidNoTopKMax(d) ==
    /\ d.query.given /\ d.query.value >= 1 /\ d.query.value <= MaxQueryLength
    /\ d.year.given
    /\ d.top_k.given => d.top_k.value >= TopKMin

\* QueryRequestSerializer.is_valid: query is required, not blank and at most
\* 1000 characters; year is required; top_k, when given, is in 1..20
IsValid(d) ==
    /\ d.query.given /\ d.query.value >= 1 /\ d.query.value <= MaxQueryLength
    /\ d.year.given
    /\ d.top_k.given => (d.top_k.value >= TopKMin /\ d.top_k.value <= TopKMax)

\* serializer.validated_data: top_k takes its default when missing
ValidatedData(d) ==
    [valid |-> TRUE, year |-> d.year.value,
     top_k |-> IF d.top_k.given THEN d.top_k.value ELSE TopKDefault,
     data |-> d]

\* str(e) of what generate_embedding can raise
EmbeddingErrors == {"embedding: request timed out", "embedding: unauthorized"}

\* str(e) of what _retrieve_chunks can raise
IndexErrors == {"index: connection refused"}

\* str(e) of what QueryHistory.objects.create can raise
HistoryErrors == {"history: connection refused"}

\* QueryView.post, lines 68-72: {'error': f'Query processing failed: {str(e)}'}
ExceptResponse(e) ==
    [status |-> 500, answer |-> NoAnswer, sources |-> <<>>, confidence |-> 0,
     error |-> e]

\* what requests.post / response.json() can give _generate_with_ollama
OllamaOutcomes == {"ok", "empty", "non2xx", "network", "timeout"}

\* what chat.completions.create can give _generate_with_openai
OpenAIOutcomes == {"ok", "empty", "error"}

\* the rows the SELECT of _retrieve_chunks matches: WHERE d.year = %s
Matching(year) == {i \in 1..Len(index) : index[i].year = year}

\* _retrieve_chunks without the LIMIT
RetrieveChunksNoLimit(year, top_k) ==
    LET rows == Matching(year)
        n == Cardinality(rows)
    IN {[k \in 1..n |->
            [chunk_id |-> s[k], year |-> index[s[k]].year,
             similarity_score |-> index[s[k]].sim]] :
        s \in {t \in [1..n -> rows] :
                 /\ \A a, b \in 1..n : a # b => t[a] # t[b]
                 /\ \A a \in 1..(n - 1) : index[t[a]].sim >= index[t[a + 1]].sim}}

\* _retrieve_chunks: ORDER BY e.embedding <=> query (ascending distance, so
\* non-increasing 1 - distance) LIMIT top_k; the database orders ties as it
\* likes, so every such order is a possible result
RetrieveChunks(year, top_k) ==
    LET rows == Matching(year)
        n == Min(top_k, Cardinality(rows))
    IN {[k \in 1..n |->
            [chunk_id |-> s[k], year |-> index[s[k]].year,
             similarity_score |-> index[s[k]].sim]] :
        s \in {t \in [1..n -> rows] :
                 /\ \A a, b \in 1..n : a # b => t[a] # t[b]
                 /\ \A a \in 1..(n - 1) : index[t[a]].sim >= index[t[a + 1]].sim
                 /\ \A r \in rows :
                      (\A a \in 1..n : t[a] # r)
                          => \A a \in 1..n : index[t[a]].sim >= index[r].sim}}

\* max(chunk['similarity_score'] for chunk in chunks)
MaxSimilarity(cs) ==
    CHOOSE m \in {cs[k].similarity_score : k \in 1..Len(cs)} :
        \A k \in 1..Len(cs) : cs[k].similarity_score <= m

\* _calculate_confidence: min(max_similarity * min(n / 3.0, 1.0), 1.0)
CalculateConfidence(cs) ==
    IF cs = <<>> THEN 0
    ELSE Min(MaxSimilarity(cs) * Min(Len(cs), FullFactorChunks), ConfOne)

\* _format_sources: one citation per chunk, in the order of the chunks
FormatSources(cs) ==
    [k \in 1..Len(cs) |->
        [chunk_id |-> cs[k].chunk_id, year |-> cs[k].year,
         relevance_score |-> cs[k].similarity_score]]

\* _generate_basic_response: max(chunks, key=similarity_score) is the first
\* chunk of the highest score
GenerateBasicResponse(cs) ==
    IF cs = <<>> THEN [kind |-> "no_chunks", chunk |-> 0]
    ELSE LET k == CHOOSE a \in 1..Len(cs) :
                     /\ cs[a].similarity_score = MaxSimilarity(cs)
                     /\ \A b \in 1..(a - 1) :
                          cs[b].similarity_score < MaxSimilarity(cs)
         IN [kind |-> "basic", chunk |-> cs[k].chunk_id]

\* generate_answer after a primary provider that is never followed by the
\* secondary one
AfterOllamaSkipOpenAI(outcome) ==
    IF outcome = "ok" THEN "assemble" ELSE "basic"

\* generate_answer, lines 36-44: where the call goes once _generate_with_ollama
\* is back
AfterOllama(outcome) ==
    IF outcome = "ok" THEN "assemble"
    ELSE IF openai_client THEN "openai"
    ELSE "basic"

QueryInit ==
    /\ index \in SeqsUpTo([year : Years, sim : Sims], MaxRows)
    /\ openai_client \in BOOLEAN
    /\ request = NoRequest
    /\ qpc = "post"
    /\ relevant_chunks = <<>>
    /\ invoked = <<>>
    /\ answer = NoAnswer
    /\ result = NoResult
    /\ raised = ""
    /\ response = NoResponse
    /\ history = <<>>

\* QueryView.post, lines 25-28: the request does not validate
PostInvalid ==
    /\ qpc = "post"
    /\ \E d \in PostedData :
          /\ ~IsValid(d)
          /\ request' = [NoRequest EXCEPT !.data = d]
    /\ response' = [NoResponse EXCEPT !.status = 400, !.error = "validation"]
    /\ qpc' = "done"
    /\ UNCHANGED <<notQueryVars, index, openai_client, relevant_chunks, invoked, answer,
                   result, raised, history>>

\* QueryView.post, lines 25-38: the request validates, process_query is entered
PostValid ==
    /\ qpc = "post"
    /\ \E d \in PostedData :
          /\ IsValid(d)
          /\ request' = ValidatedData(d)
    /\ qpc' = "embed"
    /\ UNCHANGED <<notQueryVars, index, openai_client, relevant_chunks, invoked, answer,
                   result, raised, response, history>>

\* process_query, line 31: generate_embedding returns
GenerateEmbedding ==
    /\ qpc = "embed"
    /\ qpc' = "retrieve"
    /\ UNCHANGED <<notQueryVars, index, openai_client, request, relevant_chunks, invoked,
                   answer, result, raised, response, history>>

\* process_query with the embedder's error logged and swallowed
GenerateEmbeddingRaisesSwallowed ==
    /\ qpc = "embed"
    /\ \E e \in EmbeddingErrors : raised' = e
    /\ qpc' = "retrieve"
    /\ UNCHANGED <<notQueryVars, index, openai_client, request, relevant_chunks, invoked,
                   answer, result, response, history>>

\* process_query, line 31: generate_embedding raises, process_query re-raises
GenerateEmbeddingRaises ==
    /\ qpc = "embed"
    /\ \E e \in EmbeddingErrors : raised' = e
    /\ qpc' = "respond"
    /\ UNCHANGED <<notQueryVars, index, openai_client, request, relevant_chunks, invoked,
                   answer, result, response, history>>

\* process_query, lines 34-41: _retrieve_chunks returns; no chunk ends the call
RetrieveChunksReturns ==
    /\ qpc = "retrieve"
    /\ \E cs \in RetrieveChunks(request.year, request.top_k) :
          /\ relevant_chunks' = cs
          /\ IF cs = <<>>
             THEN /\ result' = [answer |-> NoRelevantInformation,
                                sources |-> <<>>, confidence |-> 0]
                  /\ qpc' = "respond"
             ELSE /\ result' = result
                  /\ qpc' = "ollama"
    /\ UNCHANGED <<notQueryVars, index, openai_client, request, invoked, answer, raised,
                   response, history>>

\* process_query, line 34: _retrieve_chunks raises
RetrieveChunksRaises ==
    /\ qpc = "retrieve"
    /\ \E e \in IndexErrors : raised' = e
    /\ qpc' = "respond"
    /\ UNCHANGED <<notQueryVars, index, openai_client, request, relevant_chunks, invoked,
                   answer, result, response, history>>

\* generate_answer, lines 35-37, with _generate_with_ollama: anything but a
\* 200 with a non-empty response comes back as ""
GenerateWithOllama ==
    /\ qpc = "ollama"
    /\ \E o \in OllamaOutcomes :
          /\ invoked' = Append(invoked, [tier |-> "primary", outcome |-> o])
          /\ answer' = IF o = "ok" THEN ProviderText("primary") ELSE BlankText
          /\ qpc' = AfterOllama(o)
    /\ UNCHANGED <<notQueryVars, index, openai_client, request, relevant_chunks, result,
                   raised, response, history>>

\* generate_answer, lines 40-41, with _generate_with_openai: its return value is
\* returned as it is, "" on an exception or an empty completion
GenerateWithOpenAI ==
    /\ qpc = "openai"
    /\ \E o \in OpenAIOutcomes :
          /\ invoked' = Append(invoked, [tier |-> "secondary", outcome |-> o])
          /\ answer' = IF o = "ok" THEN ProviderText("secondary") ELSE BlankText
    /\ qpc' = "assemble"
    /\ UNCHANGED <<notQueryVars, index, openai_client, request, relevant_chunks, result,
                   raised, response, history>>

\* generate_answer, line 44: the basic response
GenerateBasic ==
    /\ qpc = "basic"
    /\ invoked' = Append(invoked, [tier |-> "fallback", outcome |-> "ok"])
    /\ answer' = GenerateBasicResponse(relevant_chunks)
    /\ qpc' = "assemble"
    /\ UNCHANGED <<notQueryVars, index, openai_client, request, relevant_chunks, result,
                   raised, response, history>>

\* process_query, lines 46-56: confidence, sources and the returned dictionary
ProcessQueryReturns ==
    /\ qpc = "assemble"
    /\ result' = [answer |-> answer,
                  sources |-> FormatSources(relevant_chunks),
                  confidence |-> CalculateConfidence(relevant_chunks)]
    /\ qpc' = "respond"
    /\ UNCHANGED <<notQueryVars, index, openai_client, request, relevant_chunks, invoked,
                   answer, raised, response, history>>

\* QueryResponseSerializer.is_valid: answer is a CharField, which refuses ""
ResponseIsValid(r) == r.answer.kind # "blank"

\* QueryView.post, lines 44-50 and 68-72: QueryHistory.objects.create raises
\* inside the try, no row is written and the except clause answers
PostHistoryRaises ==
    /\ qpc = "respond"
    /\ raised = ""
    /\ \E e \in HistoryErrors :
         /\ raised' = e
         /\ response' = ExceptResponse(e)
    /\ qpc' = "done"
    /\ UNCHANGED <<notQueryVars, index, openai_client, request, relevant_chunks, invoked,
                   answer, result, history>>

\* QueryView.post, lines 40-66: the history row, then the serialized response
PostResponds ==
    /\ qpc = "respond"
    /\ raised = ""
    /\ history' = Append(history, [year |-> request.year,
                                   confidence_score |-> result.confidence,
                                   sources_count |-> Len(result.sources)])
    /\ response' = IF ResponseIsValid(result)
                   THEN [status |-> 200, answer |-> result.answer,
                         sources |-> result.sources,
                         confidence |-> result.confidence, error |-> ""]
                   ELSE [NoResponse EXCEPT !.status = 500,
                                           !.error = "serializer"]
    /\ qpc' = "done"
    /\ UNCHANGED <<notQueryVars, index, openai_client, request, relevant_chunks, invoked,
                   answer, result, raised>>

\* QueryView.post, lines 68-72: process_query raised
PostExcept ==
    /\ qpc = "respond"
    /\ raised # ""
    /\ response' = ExceptResponse(raised)
    /\ qpc' = "done"
    /\ UNCHANGED <<notQueryVars, index, openai_client, request, relevant_chunks, invoked,
                   answer, result, raised, history>>

\* StatsView.get, line 120: QueryHistory.objects.count()
TotalQueries == Len(history)

QueryNext ==
    \/ PostInvalid
    \/ PostValid
    \/ GenerateEmbedding
    \/ GenerateEmbeddingRaises
    \/ RetrieveChunksReturns
    \/ RetrieveChunksRaises
    \/ GenerateWithOllama
    \/ GenerateWithOpenAI
    \/ GenerateBasic
    \/ ProcessQueryReturns
    \/ PostResponds
    \/ PostHistoryRaises
    \/ PostExcept

\* the query endpoint at rest, while the chunker runs
\* no request is in progress
QueryAtRest ==
    /\ index = <<>>
    /\ request = NoRequest
    /\ qpc = "done"
    /\ relevant_chunks = <<>>
    /\ invoked = <<>>
    /\ answer = NoAnswer
    /\ result = NoResult
    /\ raised = ""
    /\ response = NoResponse
    /\ history = <<>>

QueryUnused == openai_client = FALSE /\ QueryAtRest

(***************************************************************************)
(* LLMService.generate_answer, as a function of its chunks, of the         *)
(* providers' outcomes and of OPENAI_API_KEY being set.  A chunk_text is   *)
(* modelled by its length; a slice of it by the unit it comes from and the *)
(* number of characters taken; a string by its parts in order, "" by <<>>. *)
(***************************************************************************)
\* chunk_text[:300]
BasicPrefixChars == 300

TextLens == {1, 299, 300, 301, 500}

UnitSims == {6, 9}

\* "I couldn't find relevant information to answer your question."
CouldNotFind == [part |-> "could_not_find", unit |-> 0, chars |-> 0]

\* "Based on the available information: "
BasedOn == [part |-> "based_on", unit |-> 0, chars |-> 0]

\* "..."
Ellipsis == [part |-> "ellipsis", unit |-> 0, chars |-> 0]

\* the stripped, non-empty text a provider answered with
ProviderAnswer(tier) == [part |-> tier, unit |-> 0, chars |-> 0]

\* text[:n] of the chunk_text of unit k
Prefix(units, k, n) ==
    [part |-> "chunk_text", unit |-> k, chars |-> Min(units[k].text_len, n)]

\* max(chunks, key=lambda x: x['similarity_score']): the first unit of the
\* highest score
BestChunk(units) ==
    CHOOSE k \in 1..Len(units) :
        /\ \A j \in 1..Len(units) : units[j].sim <= units[k].sim
        /\ \A j \in 1..(k - 1) : units[j].sim < units[k].sim

\* _generate_basic_response, lines 121-128
BasicResponseText(units) ==
    IF units = <<>> THEN <<CouldNotFind>>
    ELSE <<BasedOn, Prefix(units, BestChunk(units), BasicPrefixChars), Ellipsis>>

\* a call of generate_answer, with or without OPENAI_API_KEY
FallbackInit ==
    /\ ranked_units \in SeqsUpTo([sim : UnitSims, text_len : TextLens], MaxUnits)
    /\ openai_client \in BOOLEAN
    /\ attempts = <<>>
    /\ answer_text = <<>>
    /\ fpc = "call"

\* generate_answer, lines 35-44, with _generate_with_ollama: a non-empty
\* text is returned; anything else comes back as "" and the call goes on to
\* the secondary provider when there is one, to the basic response when not
AnswerWithOllama ==
    /\ fpc = "call"
    /\ \E o \in OllamaOutcomes :
          /\ attempts' = Append(attempts, [tier |-> "primary", outcome |-> o])
          /\ answer_text' = IF o = "ok" THEN <<ProviderAnswer("primary")>>
                            ELSE <<>>
          /\ fpc' = IF AfterOllama(o) = "assemble" THEN "returned"
                    ELSE AfterOllama(o)
    /\ UNCHANGED <<notFallbackVars, ranked_units>>

\* generate_answer, lines 40-41, with _generate_with_openai: its return value
\* is returned as it is, "" on an exception or an empty completion
AnswerWithOpenAI ==
    /\ fpc = "openai"
    /\ \E o \in OpenAIOutcomes :
          /\ attempts' = Append(attempts, [tier |-> "secondary", outcome |-> o])
          /\ answer_text' = IF o = "ok" THEN <<ProviderAnswer("secondary")>>
                            ELSE <<>>
    /\ fpc' = "returned"
    /\ UNCHANGED <<notFallbackVars, ranked_units>>

\* generate_answer, line 44: the basic response is returned
GenerateBasicResponseCall ==
    /\ fpc = "basic"
    /\ answer_text' = BasicResponseText(ranked_units)
    /\ fpc' = "returned"
    /\ UNCHANGED <<notFallbackVars, ranked_units, attempts>>

FallbackNext ==
    \/ AnswerWithOllama
    \/ AnswerWithOpenAI
    \/ GenerateBasicResponseCall

FallbackUnused ==
    /\ ranked_units = <<>>
    /\ attempts = <<>>
    /\ answer_text = <<>>
    /\ fpc = "returned"

(***************************************************************************)
(* DocumentProcessor.process_document, as the ingest command calls it.     *)
(*                                                                         *)
(* The text is a sequence of characters: "a" is a letter, "." an end of    *)
(* sentence ([.!?]) and " " white space.  Each cursor.execute is committed *)
(* on its own (no transaction is opened), so a row written stays written.  *)
(***************************************************************************)
\* TextChunker.__init__: chunk_size: int = 600
DefaultChunkSize == 600

\* TextChunker.__init__: overlap: int = 100
DefaultOverlap == 100

Chars == {"a", ".", " "}

Texts == SeqsUpTo(Chars, MaxTextLen)

\* len(encoding.encode(sentence)) of a sentence of a filing: 0 when encode
\* raises, else a count of which two may or may not fit one chunk
TokenCounts == {0, 300, 400}

\* where the white space run starting at i ends
SkipSpaces(t, i) ==
    CHOOSE j \in i..(Len(t) + 1) :
        /\ \A k \in i..(j - 1) : t[k] = " "
        /\ j = Len(t) + 1 \/ t[j] # " "

\* re.split(r'(?<=[.!?])\s+', text) from position i on, cur being the piece
\* begun: a run of white space right after an end of sentence separates
RECURSIVE ReSplit(_, _, _)
ReSplit(t, i, cur) ==
    IF i > Len(t) THEN <<cur>>
    ELSE IF t[i] = " " /\ i > 1 /\ t[i - 1] = "."
         THEN <<cur>> \o ReSplit(t, SkipSpaces(t, i), <<>>)
         ELSE ReSplit(t, i + 1, Append(cur, t[i]))

\* str.strip
Strip(piece) ==
    LET solid == {k \in 1..Len(piece) : piece[k] # " "}
    IN IF solid = {} THEN <<>>
       ELSE SubSeq(piece, CHOOSE k \in solid : \A j \in solid : k <= j,
                          CHOOSE k \in solid : \A j \in solid : j <= k)

\* _split_into_sentences without its "if s.strip()"
SplitIntoSentencesKeepEmpty(t) ==
    LET pieces == ReSplit(t, 1, <<>>)
    IN [k \in 1..Len(pieces) |-> Strip(pieces[k])]

\* _split_into_sentences, lines 69-73
SplitIntoSentences(t) ==
    LET pieces == ReSplit(t, 1, <<>>)
        IsSentence(piece) == Strip(piece) # <<>>
        kept == SelectSeq(pieces, IsSentence)
    IN [k \in 1..Len(kept) |-> Strip(kept[k])]

NoIngestResult == [success |-> FALSE, chunk_count |-> 0, error |-> "pending"]

\* lines 60-65: {'success': False, 'error': str(e)}
Failure(e) == [success |-> FALSE, chunk_count |-> 0, error |-> e]

\* the Document of ingest_documents.handle, lines 46-54, at its creation
NewDjangoDoc(year) ==
    [company |-> "Apple Inc.", year |-> year, status |-> "processing",
     chunk_count |-> 0]

\* a Document of another year, ingested before
OldDjangoDoc(year) ==
    [company |-> "Apple Inc.", year |-> year, status |-> "completed",
     chunk_count |-> 2]

\* the companies of the Documents, in the alphabetical order of
\* Meta.ordering; only the first holds 'Apple'
Companies == <<"Apple Inc.", "Microsoft Corp.">>

CompanyRank(company) == CHOOSE k \in 1..Len(Companies) : Companies[k] = company

\* Meta.ordering = ['-year', 'company']: a comes before b
ComesBefore(a, b) ==
    \/ a.year > b.year
    \/ (a.year = b.year /\ CompanyRank(a.company) < CompanyRank(b.company))

\* the Documents are in Meta.ordering
InOrdering(docs) ==
    \A k \in 1..(Len(docs) - 1) : ComesBefore(docs[k], docs[k + 1])

\* the command has just created the Document of the year and calls
\* process_document on an empty pair of tables
IngestInit ==
    /\ ipc = "call"
    /\ call_year \in Years
    /\ text = <<>>
    /\ documents = <<>>
    /\ chunk_rows = <<>>
    /\ embedding_rows = {}
    /\ chunk_i = 0
    /\ chunk_count = 0
    /\ django_docs \in {docs \in SeqsUpTo({NewDjangoDoc(call_year)} \cup
                                         {OldDjangoDoc(y) : y \in Years \ {call_year}},
                                         2) :
                           /\ InOrdering(docs)
                           /\ \E k \in 1..Len(docs) : docs[k].year = call_year
                           /\ \A j, k \in 1..Len(docs) :
                                 docs[j].year = docs[k].year => j = k}
    /\ ingest_result = NoIngestResult
    /\ found_doc = <<>>
    /\ ppc = "idle"
    /\ chunks_to_process = {}

\* lines 36-39: _fetch_document returns and parse_10k gives the full text
FetchDocument ==
    /\ ipc = "call"
    /\ text' \in Texts
    /\ ipc' = "fetched"
    /\ UNCHANGED <<notIngestVars, chunkVars, call_year, found_doc,
                   documents, chunk_rows,
                   embedding_rows, chunk_i, chunk_count, django_docs,
                   ingest_result>>

\* lines 36, 60-65: _fetch_document raises
FetchDocumentRaises ==
    /\ ipc = "call"
    /\ ingest_result' = Failure("fetch")
    /\ ipc' = "done"
    /\ UNCHANGED <<notIngestVars, chunkVars, call_year, found_doc,
                   text, documents,
                   chunk_rows, embedding_rows, chunk_i, chunk_count,
                   django_docs>>

\* line 42, _store_document: INSERT INTO documents ... RETURNING id
StoreDocument ==
    /\ ipc = "fetched"
    /\ documents' = Append(documents,
                           [company |-> "Apple Inc.", year |-> call_year])
    /\ ipc' = "stored"
    /\ UNCHANGED <<notIngestVars, chunkVars, call_year, found_doc,
                   text, chunk_rows,
                   embedding_rows, chunk_i, chunk_count, django_docs,
                   ingest_result>>

\* lines 42, 60-65: the INSERT raises
StoreDocumentRaises ==
    /\ ipc = "fetched"
    /\ ingest_result' = Failure("store document")
    /\ ipc' = "done"
    /\ UNCHANGED <<notIngestVars, chunkVars, call_year, found_doc,
                   text, documents,
                   chunk_rows, embedding_rows, chunk_i, chunk_count,
                   django_docs>>

\* line 45 and chunk_text lines 29-33: the call of the chunker, a
\* TextChunker() of the default sizes, up to its for loop
ChunkTextCall ==
    /\ ipc = "stored"
    /\ LET n == Len(SplitIntoSentences(text))
       IN /\ sentences' \in [1..n -> TokenCounts]
          /\ words' = [p \in 1..n |-> {}]
    /\ chunk_size' = DefaultChunkSize
    /\ overlap' = DefaultOverlap
    /\ pos' = 0
    /\ current_chunk' = <<>>
    /\ current_tokens' = 0
    /\ chunks' = <<>>
    /\ cpc' = "loop"
    /\ ipc' = "chunked"
    /\ UNCHANGED <<notIngestVars, call_year, found_doc,
                   text, documents, chunk_rows,
                   embedding_rows, chunk_i, chunk_count, django_docs,
                   ingest_result>>

\* chunk_text has returned and the for loop of line 102 is at its head
AtLoopHead == ipc = "chunked" /\ cpc # "loop"

\* lines 104-116 with chunk_index i + 1
StoreChunkOneBased ==
    /\ AtLoopHead
    /\ chunk_i < Len(chunks)
    /\ chunk_rows' = Append(chunk_rows,
                            [document_id |-> Len(documents),
                             chunk_index |-> chunk_i + 1,
                             chunk |-> chunk_i + 1,
                             section |-> chunks[chunk_i + 1].section])
    /\ ipc' = "embed"
    /\ UNCHANGED <<notIngestVars, chunkVars, call_year, found_doc,
                   text, documents,
                   embedding_rows, chunk_i, chunk_count, django_docs,
                   ingest_result>>

\* lines 102-116: INSERT INTO chunks the chunk of enumerate index i; `chunk`
\* is its place in what chunk_text returned (its text)
StoreChunk ==
    /\ AtLoopHead
    /\ chunk_i < Len(chunks)
    /\ chunk_rows' = Append(chunk_rows,
                            [document_id |-> Len(documents),
                             chunk_index |-> chunk_i,
                             chunk |-> chunk_i + 1,
                             section |-> chunks[chunk_i + 1].section])
    /\ ipc' = "embed"
    /\ UNCHANGED <<notIngestVars, chunkVars, call_year, found_doc,
                   text, documents,
                   embedding_rows, chunk_i, chunk_count, django_docs,
                   ingest_result>>

\* lines 104-114, 132-134, 60-65: the INSERT of the chunk raises
StoreChunkRaises ==
    /\ AtLoopHead
    /\ chunk_i < Len(chunks)
    /\ ingest_result' = Failure("store chunk")
    /\ ipc' = "done"
    /\ UNCHANGED <<notIngestVars, chunkVars, call_year, found_doc,
                   text, documents,
                   chunk_rows, embedding_rows, chunk_i, chunk_count,
                   django_docs>>

\* lines 119-128: the embedding is generated and inserted under the id of
\* the chunk just written; chunk_id is the primary key of the table, and
\* the INSERT succeeds only when the chunk has no embedding yet
StoreEmbedding ==
    /\ ipc = "embed"
    /\ Len(chunk_rows) \notin embedding_rows
    /\ embedding_rows' = embedding_rows \cup {Len(chunk_rows)}
    /\ chunk_count' = chunk_count + 1
    /\ chunk_i' = chunk_i + 1
    /\ ipc' = "chunked"
    /\ UNCHANGED <<notIngestVars, chunkVars, call_year, found_doc,
                   text, documents,
                   chunk_rows, django_docs, ingest_result>>

\* lines 119 or 123-126, 132-134, 60-65: generate_embedding or the INSERT of
\* the embedding raises; the loop is left and the call returns the failure
StoreEmbeddingRaises ==
    /\ ipc = "embed"
    /\ \E e \in {"embedding", "store embedding"} :
          ingest_result' = Failure(e)
    /\ ipc' = "done"
    /\ UNCHANGED <<notIngestVars, chunkVars, call_year, found_doc,
                   text, documents,
                   chunk_rows, embedding_rows, chunk_i, chunk_count,
                   django_docs>>

\* _update_document_status, lines 142-145: filter(company__icontains='Apple',
\* year__isnull=False).first() gives the first Document, in the ordering,
\* whose company holds 'Apple', None (<<>>) when there is none
FirstAppleDocument(docs) ==
    LET apple == {k \in 1..Len(docs) : docs[k].company = "Apple Inc."}
    IN IF apple = {} THEN <<>>
       ELSE <<docs[CHOOSE k \in apple : \A j \in apple : k <= j]>>

\* Model.save(): the row of the object's key is written from the object in
\* memory
SaveDocument(docs, d) ==
    [k \in 1..Len(docs) |->
        IF docs[k].company = d.company /\ docs[k].year = d.year
        THEN d
        ELSE docs[k]]

\* lines 130, 51, 142-145: the loop is over and _update_document_status
\* reads the Document it will update
UpdateStatusFirst ==
    /\ AtLoopHead
    /\ chunk_i = Len(chunks)
    /\ found_doc' = FirstAppleDocument(django_docs)
    /\ ipc' = "update"
    /\ UNCHANGED <<notIngestVars, chunkVars, call_year, text, documents,
                   chunk_rows, embedding_rows, chunk_i, chunk_count,
                   django_docs, ingest_result>>

\* lines 130, 51, 142-145, 152-158: the loop is over and the SELECT of
\* _update_document_status raises, which is only logged; the call returns
\* its success
UpdateStatusFirstRaises ==
    /\ AtLoopHead
    /\ chunk_i = Len(chunks)
    /\ ingest_result' = [success |-> TRUE, chunk_count |-> chunk_count,
                         error |-> ""]
    /\ ipc' = "done"
    /\ UNCHANGED <<notIngestVars, chunkVars, call_year, found_doc, text,
                   documents, chunk_rows, embedding_rows, chunk_i,
                   chunk_count, django_docs>>

\* lines 147-153, 53-58: the Document read, if there is one, is saved with
\* the status and the count, or save() raises, which is only logged; the
\* call returns its success
ProcessDocumentReturns ==
    /\ ipc = "update"
    /\ \/ django_docs' =
             IF found_doc = <<>> THEN django_docs
             ELSE SaveDocument(django_docs,
                               [found_doc[1] EXCEPT
                                    !.status = "completed",
                                    !.chunk_count = chunk_count])
       \/ django_docs' = django_docs
    /\ found_doc' = <<>>
    /\ ingest_result' = [success |-> TRUE, chunk_count |-> chunk_count,
                         error |-> ""]
    /\ ipc' = "done"
    /\ UNCHANGED <<notIngestVars, chunkVars, call_year, text, documents,
                   chunk_rows, embedding_rows, chunk_i, chunk_count>>

\* populate_embeddings, Command.handle, lines 15-30: the SELECT of the
\* chunks without embedding; with none the command returns.  The command
\* is run at any moment, a call of process_document in progress or not
PopulateSelect ==
    /\ ppc = "idle"
    /\ chunks_to_process' = (1..Len(chunk_rows)) \ embedding_rows
    /\ ppc' = IF chunks_to_process' = {} THEN "idle" ELSE "loop"
    /\ UNCHANGED <<notPopulateVars, embedding_rows>>

\* lines 34-46: the embedding of a chunk of the list is generated and
\* inserted; the SELECT has no ORDER BY, the list comes in any order
PopulateChunk ==
    /\ ppc = "loop"
    /\ \E chunk_id \in chunks_to_process :
          /\ chunk_id \notin embedding_rows
          /\ embedding_rows' = embedding_rows \cup {chunk_id}
          /\ chunks_to_process' = chunks_to_process \ {chunk_id}
    /\ UNCHANGED <<notPopulateVars, ppc>>

\* lines 34-54: generate_embedding raises, or the INSERT does, as it must
\* when the chunk has got its embedding since the SELECT (chunk_id is the
\* primary key); the failure is written to stdout and the loop goes on
PopulateChunkRaises ==
    /\ ppc = "loop"
    /\ \E chunk_id \in chunks_to_process :
          chunks_to_process' = chunks_to_process \ {chunk_id}
    /\ UNCHANGED <<notPopulateVars, ppc, embedding_rows>>

\* lines 56-58: the loop is over
PopulateReturns ==
    /\ ppc = "loop"
    /\ chunks_to_process = {}
    /\ ppc' = "idle"
    /\ UNCHANGED <<notPopulateVars, chunks_to_process, embedding_rows>>

IngestNext ==
    \/ FetchDocument
    \/ FetchDocumentRaises
    \/ StoreDocument
    \/ StoreDocumentRaises
    \/ ChunkTextCall
    \/ ChunkTextLoop
    \/ ChunkTextReturn
    \/ ChunkTextExcept
    \/ StoreChunk
    \/ StoreChunkRaises
    \/ StoreEmbedding
    \/ StoreEmbeddingRaises
    \/ UpdateStatusFirst
    \/ UpdateStatusFirstRaises
    \/ ProcessDocumentReturns
    \/ PopulateSelect
    \/ PopulateChunk
    \/ PopulateChunkRaises
    \/ PopulateReturns

\* no ingest is running and the tables are empty
IngestUnused ==
    /\ ipc = "done"
    /\ call_year = 2023
    /\ text = <<>>
    /\ documents = <<>>
    /\ chunk_rows = <<>>
    /\ embedding_rows = {}
    /\ chunk_i = 0
    /\ chunk_count = 0
    /\ django_docs = <<>>
    /\ ingest_result = NoIngestResult
    /\ found_doc = <<>>
    /\ ppc = "idle"
    /\ chunks_to_process = {}

(***************************************************************************)
(* Two POSTs to the query endpoint served at once.  QueryView.post builds  *)
(* a QueryProcessor of its own (line 37), which builds an EmbeddingService *)
(* and an LLMService of its own (query_processor.py lines 13-15): what a   *)
(* call works on is local to it.  A step is one collaborator call of one   *)
(* of the POSTs.                                                           *)
(***************************************************************************)
Calls == {1, 2}

\* the locals of a POST whose request validated, before process_query
NewCall(year, top_k) ==
    [pc |-> "embed", year |-> year, top_k |-> top_k, relevant_chunks |-> <<>>,
     invoked |-> <<>>, answer |-> NoAnswer, result |-> NoResult,
     raised |-> "", response |-> NoResponse]

\* an index of at most MaxSharedRows chunks and two POSTs of a query and a
\* year, top_k left to its default
ConcurrentInit ==
    /\ index \in SeqsUpTo([year : Years, sim : {6, 9}], MaxSharedRows)
    /\ openai_client \in BOOLEAN
    /\ history = <<>>
    /\ calls \in [Calls -> {NewCall(y, TopKDefault) : y \in Years}]
    /\ request = NoRequest
    /\ qpc = "done"
    /\ relevant_chunks = <<>>
    /\ invoked = <<>>
    /\ answer = NoAnswer
    /\ result = NoResult
    /\ raised = ""
    /\ response = NoResponse

\* process_query, line 31: generate_embedding returns
CallGenerateEmbedding(c) ==
    /\ calls[c].pc = "embed"
    /\ calls' = [calls EXCEPT ![c].pc = "retrieve"]
    /\ UNCHANGED <<notCallVars, history>>

\* process_query, lines 31, 58-60: generate_embedding raises
CallGenerateEmbeddingRaises(c) ==
    /\ calls[c].pc = "embed"
    /\ \E e \in EmbeddingErrors :
          calls' = [calls EXCEPT ![c].raised = e, ![c].pc = "respond"]
    /\ UNCHANGED <<notCallVars, history>>

\* process_query, lines 34-41: _retrieve_chunks returns
CallRetrieveChunksReturns(c) ==
    /\ calls[c].pc = "retrieve"
    /\ \E cs \in RetrieveChunks(calls[c].year, calls[c].top_k) :
          calls' = [calls EXCEPT
                       ![c].relevant_chunks = cs,
                       ![c].result =
                           IF cs = <<>>
                           THEN [answer |-> NoRelevantInformation,
                                 sources |-> <<>>, confidence |-> 0]
                           ELSE @,
                       ![c].pc = IF cs = <<>> THEN "respond" ELSE "ollama"]
    /\ UNCHANGED <<notCallVars, history>>

\* process_query, lines 34, 58-60: _retrieve_chunks raises
CallRetrieveChunksRaises(c) ==
    /\ calls[c].pc = "retrieve"
    /\ \E e \in IndexErrors :
          calls' = [calls EXCEPT ![c].raised = e, ![c].pc = "respond"]
    /\ UNCHANGED <<notCallVars, history>>

\* generate_answer, lines 35-37
CallGenerateWithOllama(c) ==
    /\ calls[c].pc = "ollama"
    /\ \E o \in OllamaOutcomes :
          calls' = [calls EXCEPT
                       ![c].invoked = Append(@, [tier |-> "primary",
                                                  outcome |-> o]),
                       ![c].answer = IF o = "ok" THEN ProviderText("primary")
                                     ELSE BlankText,
                       ![c].pc = AfterOllama(o)]
    /\ UNCHANGED <<notCallVars, history>>

\* generate_answer, lines 40-41
CallGenerateWithOpenAI(c) ==
    /\ calls[c].pc = "openai"
    /\ \E o \in OpenAIOutcomes :
          calls' = [calls EXCEPT
                       ![c].invoked = Append(@, [tier |-> "secondary",
                                                  outcome |-> o]),
                       ![c].answer = IF o = "ok"
                                     THEN ProviderText("secondary")
                                     ELSE BlankText,
                       ![c].pc = "assemble"]
    /\ UNCHANGED <<notCallVars, history>>

\* generate_answer, line 44
CallGenerateBasic(c) ==
    /\ calls[c].pc = "basic"
    /\ calls' = [calls EXCEPT
                    ![c].invoked = Append(@, [tier |-> "fallback",
                                               outcome |-> "ok"]),
                    ![c].answer = GenerateBasicResponse(calls[c].relevant_chunks),
                    ![c].pc = "assemble"]
    /\ UNCHANGED <<notCallVars, history>>

\* process_query with the answer kept where both calls write it: the
\* dictionary is built from whichever answer was written last
CallProcessQueryReturnsSharedAnswer(c) ==
    /\ calls[c].pc = "assemble"
    /\ \E d \in Calls :
          /\ calls[d].answer # NoAnswer
          /\ calls' = [calls EXCEPT
                          ![c].result =
                              [answer |-> calls[d].answer,
                               sources |-> FormatSources(calls[c].relevant_chunks),
                               confidence |->
                                   CalculateConfidence(calls[c].relevant_chunks)],
                          ![c].pc = "respond"]
    /\ UNCHANGED <<notCallVars, history>>

\* process_query, lines 44-56: the dictionary of the call's own answer,
\* sources and confidence
CallProcessQueryReturns(c) ==
    /\ calls[c].pc = "assemble"
    /\ calls' = [calls EXCEPT
                    ![c].result =
                        [answer |-> calls[c].answer,
                         sources |-> FormatSources(calls[c].relevant_chunks),
                         confidence |->
                             CalculateConfidence(calls[c].relevant_chunks)],
                    ![c].pc = "respond"]
    /\ UNCHANGED <<notCallVars, history>>

\* QueryView.post, lines 62-66: the response of a returned dictionary
SerializedResponse(r) ==
    IF ResponseIsValid(r)
    THEN [status |-> 200, answer |-> r.answer, sources |-> r.sources,
          confidence |-> r.confidence, error |-> ""]
    ELSE [NoResponse EXCEPT !.status = 500, !.error = "serializer"]

\* QueryView.post, lines 40-66: the history row, then the response
CallResponds(c) ==
    /\ calls[c].pc = "respond"
    /\ calls[c].raised = ""
    /\ history' = Append(history,
                         [year |-> calls[c].year,
                          confidence_score |-> calls[c].result.confidence,
                          sources_count |-> Len(calls[c].result.sources)])
    /\ calls' = [calls EXCEPT
                    ![c].response = SerializedResponse(calls[c].result),
                    ![c].pc = "done"]
    /\ UNCHANGED notCallVars

\* QueryView.post, lines 44-50 and 68-72: QueryHistory.objects.create raises
CallHistoryRaises(c) ==
    /\ calls[c].pc = "respond"
    /\ calls[c].raised = ""
    /\ \E e \in HistoryErrors :
          calls' = [calls EXCEPT ![c].raised = e,
                                 ![c].response = ExceptResponse(e),
                                 ![c].pc = "done"]
    /\ UNCHANGED <<notCallVars, history>>

\* QueryView.post, lines 68-72
CallExcept(c) ==
    /\ calls[c].pc = "respond"
    /\ calls[c].raised # ""
    /\ calls' = [calls EXCEPT
                    ![c].response = ExceptResponse(calls[c].raised),
                    ![c].pc = "done"]
    /\ UNCHANGED <<notCallVars, history>>

ConcurrentNext ==
    \/ \E c \in Calls : CallGenerateEmbedding(c)
    \/ \E c \in Calls : CallGenerateEmbeddingRaises(c)
    \/ \E c \in Calls : CallRetrieveChunksReturns(c)
    \/ \E c \in Calls : CallRetrieveChunksRaises(c)
    \/ \E c \in Calls : CallGenerateWithOllama(c)
    \/ \E c \in Calls : CallGenerateWithOpenAI(c)
    \/ \E c \in Calls : CallGenerateBasic(c)
    \/ \E c \in Calls : CallProcessQueryReturns(c)
    \/ \E c \in Calls : CallResponds(c)
    \/ \E c \in Calls : CallHistoryRaises(c)
    \/ \E c \in Calls : CallExcept(c)

\* no POST is in progress
CallsUnused == calls = [c \in Calls |-> [NewCall(2023, 1) EXCEPT !.pc = "done"]]

(***************************************************************************)
(* The ingest_documents command and Document.objects.create.  The command  *)
(* is run again and again, one statement or collaborator call per step;    *)
(* the steps of its call of process_document are those of SpecIngest, but  *)
(* for the text, of which only the chunks chunk_text cuts it into are      *)
(* kept, each by its section.  Another client of the database creates a    *)
(* Document at any moment, the command running or not.                     *)
(***************************************************************************)
\* handle, lines 23-34: the years of `documents`, in its order
CommandDocuments == <<2023, 2024>>

\* the pairs another client creates a Document of: the two of the command
\* and one of another company, which Meta.ordering puts between them
CreatedPairs ==
    {<<Companies[1], 2023>>, <<Companies[1], 2024>>, <<Companies[2], 2024>>}

\* there is a Document of the company and year
Tracked(docs, company, year) ==
    \E k \in 1..Len(docs) : docs[k].company = company /\ docs[k].year = year

\* the Document objects with one more, in Meta.ordering
WithDocument(docs, d) ==
    LET before == SelectSeq(docs, LAMBDA x : ComesBefore(x, d))
        after == SelectSeq(docs, LAMBDA x : ~ComesBefore(x, d))
    IN before \o <<d>> \o after

\* what _detect_section can return
DetectableSections ==
    {SectionKeywords[k].section : k \in 1..Len(SectionKeywords)} \cup {"Other"}

\* a chunk of chunk_text by its section alone: its sentences and its token
\* count are not kept
ChunkOfSection(section) ==
    [sents |-> <<>>, token_count |-> 0, section |-> section]

\* what chunk_text can return for a text: chunks of any detectable section,
\* or, when encode raises, the whole text as one chunk of section 'Unknown'
ChunkLists ==
    UNION {[1..n -> {ChunkOfSection(s) : s \in DetectableSections}] :
              n \in 0..MaxDocChunks}
    \cup {<<ChunkOfSection("Unknown")>>}

\* the locals of a call of process_document, before the call
NoCall ==
    [ipc |-> "done", chunks |-> <<>>, chunk_i |-> 0, chunk_count |-> 0,
     ingest_result |-> NoIngestResult, found_doc |-> <<>>]

\* the entry of stdout about a year: what was done with it
Line(year, outcome, count) ==
    [year |-> year, outcome |-> outcome, chunk_count |-> count]

\* the runs, the latest of which has ended: handle returned ("completed") or
\* an exception left it ("raised")
Ended(rs, how) == [rs EXCEPT ![Len(rs)].ended = how]

\* an empty database and the command not running
CommandInit ==
    /\ cmd_pc = "idle"
    /\ todo = <<>>
    /\ runs = <<>>
    /\ output = <<>>
    /\ success_count = 0
    /\ last_create = [company |-> "", year |-> 0, outcome |-> "none"]
    /\ django_docs = <<>>
    /\ documents = <<>>
    /\ chunk_rows = <<>>
    /\ embedding_rows = {}
    /\ ingest_result = NoIngestResult
    /\ found_doc = <<>>
    /\ ppc = "idle"
    /\ chunks_to_process = {}
    /\ ipc = "done"
    /\ call_year = 2023
    /\ text = <<>>
    /\ chunk_i = 0
    /\ chunk_count = 0

\* Document.objects.create without the unique_together of Meta
CreateDocumentNoUnique(company, year) ==
    /\ django_docs' = WithDocument(django_docs,
                                   [company |-> company, year |-> year,
                                    status |-> "pending", chunk_count |-> 0])
    /\ last_create' = [company |-> company, year |-> year,
                       outcome |-> "created"]
    /\ UNCHANGED <<notCommandVars, callLocals, tables, cmd_pc, todo, runs,
                   output, success_count>>

\* Document.objects.create(company=, year=, ...), by any client at any
\* moment: status and chunk_count take their defaults; unique_together makes
\* the INSERT of a second row of the pair raise IntegrityError
CreateDocument(company, year) ==
    /\ IF Tracked(django_docs, company, year)
       THEN /\ django_docs' = django_docs
            /\ last_create' = [company |-> company, year |-> year,
                               outcome |-> "IntegrityError"]
       ELSE /\ django_docs' = WithDocument(django_docs,
                                           [company |-> company,
                                            year |-> year,
                                            status |-> "pending",
                                            chunk_count |-> 0])
            /\ last_create' = [company |-> company, year |-> year,
                               outcome |-> "created"]
    /\ UNCHANGED <<notCommandVars, callLocals, tables, cmd_pc, todo, runs,
                   output, success_count>>

\* handle, lines 17-40: the command starts, with --year or without (0)
HandleStart(year) ==
    /\ cmd_pc = "idle"
    /\ Len(runs) < MaxRuns
    /\ todo' = IF year # 0
               THEN SelectSeq(CommandDocuments, LAMBDA y : y = year)
               ELSE CommandDocuments
    /\ runs' = Append(runs, [year |-> year, ended |-> "running"])
    /\ success_count' = 0
    /\ output' = <<>>
    /\ cmd_pc' = "loop"
    /\ UNCHANGED <<notCommandVars, callLocals, tables, last_create,
                   django_docs>>

\* lines 42-58: get_or_create finds the Document of the entry; the entry is
\* skipped
HandleSkip ==
    /\ cmd_pc = "loop"
    /\ todo # <<>>
    /\ Tracked(django_docs, "Apple Inc.", Head(todo))
    /\ output' = Append(output, Line(Head(todo), "skipped", 0))
    /\ todo' = Tail(todo)
    /\ UNCHANGED <<notCommandVars, callLocals, tables, cmd_pc, runs,
                   last_create, success_count, django_docs>>

\* lines 42-65: get_or_create finds no Document of the entry and creates
\* it, in status 'processing'; process_document is called
HandleCreate ==
    /\ cmd_pc = "loop"
    /\ todo # <<>>
    /\ ~Tracked(django_docs, "Apple Inc.", Head(todo))
    /\ django_docs' = WithDocument(django_docs, NewDjangoDoc(Head(todo)))
    /\ call_year' = Head(todo)
    /\ ipc' = "call"
    /\ cmd_pc' = "process"
    /\ UNCHANGED <<notCommandVars, tables, found_doc, chunks, chunk_i,
                   chunk_count,
                   ingest_result, todo, runs, output, last_create,
                   success_count>>

\* line 46: get_or_create raises (the database refuses the statement); the
\* exception leaves handle, and neither the rest of the entries nor the
\* closing line is reached
HandleGetOrCreateRaises ==
    /\ cmd_pc = "loop"
    /\ todo # <<>>
    /\ todo' = <<>>
    /\ runs' = Ended(runs, "raised")
    /\ cmd_pc' = "idle"
    /\ UNCHANGED <<notCommandVars, callLocals, tables, output, last_create,
                   success_count, django_docs>>

\* process_document, lines 36-39, called by handle: _fetch_document returns
\* and parse_10k gives the full text
HandleFetchDocument ==
    /\ cmd_pc = "process"
    /\ ipc = "call"
    /\ ipc' = "fetched"
    /\ UNCHANGED <<notCommandVars, commandVars, tables, call_year, found_doc,
                   chunks,
                   chunk_i, chunk_count, ingest_result, django_docs>>

\* process_document, line 45, called by handle: chunk_text returns
HandleChunkText ==
    /\ cmd_pc = "process"
    /\ ipc = "stored"
    /\ chunks' \in ChunkLists
    /\ ipc' = "chunked"
    /\ UNCHANGED <<notCommandVars, commandVars, tables, call_year, found_doc,
                   chunk_i,
                   chunk_count, ingest_result, django_docs>>

\* lines 61-73: process_document returned a success
HandleSuccess ==
    /\ cmd_pc = "process"
    /\ ipc = "done"
    /\ ingest_result.success
    /\ output' = Append(output, Line(Head(todo), "processed",
                                     ingest_result.chunk_count))
    /\ success_count' = success_count + 1
    /\ todo' = Tail(todo)
    /\ cmd_pc' = "loop"
    /\ chunks' = NoCall.chunks
    /\ chunk_i' = NoCall.chunk_i
    /\ chunk_count' = NoCall.chunk_count
    /\ ingest_result' = NoCall.ingest_result
    /\ UNCHANGED <<notCommandVars, tables, ipc, call_year, found_doc,
                   runs, last_create,
                   django_docs>>

\* lines 61-66, 74-77: process_document returned a failure, which is written
\* to stdout
HandleFailure ==
    /\ cmd_pc = "process"
    /\ ipc = "done"
    /\ ~ingest_result.success
    /\ output' = Append(output, Line(Head(todo), "failed", 0))
    /\ cmd_pc' = "save"
    /\ chunks' = NoCall.chunks
    /\ chunk_i' = NoCall.chunk_i
    /\ chunk_count' = NoCall.chunk_count
    /\ ingest_result' = NoCall.ingest_result
    /\ UNCHANGED <<notCommandVars, tables, ipc, call_year, found_doc, todo,
                   runs, last_create, success_count, django_docs>>

\* lines 78-79: the Document get_or_create returned is saved with status
\* 'failed', and the loop goes on
HandleFailureSave ==
    /\ cmd_pc = "save"
    /\ django_docs' = SaveDocument(django_docs,
                                   [NewDjangoDoc(Head(todo)) EXCEPT
                                        !.status = "failed"])
    /\ todo' = Tail(todo)
    /\ cmd_pc' = "loop"
    /\ UNCHANGED <<notCommandVars, callLocals, tables, runs, output,
                   last_create, success_count>>

\* lines 78-79: django_doc.save() raises; the Document stays as it is, the
\* exception leaves handle, and neither the rest of the entries nor the
\* closing line is reached
HandleFailureSaveRaises ==
    /\ cmd_pc = "save"
    /\ todo' = <<>>
    /\ runs' = Ended(runs, "raised")
    /\ cmd_pc' = "idle"
    /\ UNCHANGED <<notCommandVars, callLocals, tables, output, last_create,
                   success_count, django_docs>>

\* lines 81-83: the loop is over and the closing line tells success_count
HandleReturns ==
    /\ cmd_pc = "loop"
    /\ todo = <<>>
    /\ output' = Append(output, Line(0, "completed", success_count))
    /\ runs' = Ended(runs, "completed")
    /\ cmd_pc' = "idle"
    /\ UNCHANGED <<notCommandVars, callLocals, tables, todo, last_create,
                   success_count, django_docs>>

CommandNext ==
    \/ \E pair \in CreatedPairs : CreateDocument(pair[1], pair[2])
    \/ \E y \in {0} \cup Years : HandleStart(y)
    \/ HandleSkip
    \/ HandleCreate
    \/ HandleGetOrCreateRaises
    \/ HandleFetchDocument
    \/ FetchDocumentRaises
    \/ StoreDocument
    \/ StoreDocumentRaises
    \/ HandleChunkText
    \/ StoreChunk
    \/ StoreChunkRaises
    \/ StoreEmbedding
    \/ StoreEmbeddingRaises
    \/ UpdateStatusFirst
    \/ UpdateStatusFirstRaises
    \/ ProcessDocumentReturns
    \/ PopulateSelect
    \/ PopulateChunk
    \/ PopulateChunkRaises
    \/ PopulateReturns
    \/ HandleSuccess
    \/ HandleFailure
    \/ HandleFailureSave
    \/ HandleFailureSaveRaises
    \/ HandleReturns

\* the command is not running
CommandUnused ==
    /\ cmd_pc = "idle"
    /\ todo = <<>>
    /\ runs = <<>>
    /\ output = <<>>
    /\ success_count = 0
    /\ last_create = [company |-> "", year |-> 0, outcome |-> "none"]

(***************************************************************************)
(* The specifications.                                                     *)
(***************************************************************************)
\* a call of chunk_text, the rest at rest
InitChunk ==
    ChunkInit /\ QueryUnused /\ FallbackUnused
    /\ IngestUnused /\ CallsUnused
    /\ CommandUnused

\* a POST to the query endpoint, the rest at rest
InitQuery ==
    QueryInit /\ ChunkUnused /\ FallbackUnused
    /\ IngestUnused /\ CallsUnused
    /\ CommandUnused

\* a call of generate_answer on its own, the rest at rest
InitFallback ==
    FallbackInit /\ ChunkUnused /\ QueryAtRest
    /\ IngestUnused /\ CallsUnused
    /\ CommandUnused

SpecFallback == InitFallback /\ [][FallbackNext]_vars

SpecChunk == InitChunk /\ [][ChunkNext]_vars

\* one call of chunk_text on a text that says something
InitSection ==
    SectionInit /\ QueryUnused /\ FallbackUnused
    /\ IngestUnused /\ CallsUnused
    /\ CommandUnused

SpecSection == InitSection /\ [][ChunkNext]_vars

SpecQuery == InitQuery /\ [][QueryNext]_vars

\* one call of process_document, with populate_embeddings at any moment
InitIngest ==
    IngestInit /\ ChunkUnused /\ QueryUnused
    /\ FallbackUnused /\ CallsUnused
    /\ CommandUnused

SpecIngest == InitIngest /\ [][IngestNext]_vars

\* two POSTs at once on one database
InitConcurrent ==
    ConcurrentInit /\ ChunkUnused /\ FallbackUnused /\ IngestUnused
    /\ CommandUnused

SpecConcurrent == InitConcurrent /\ [][ConcurrentNext]_vars

\* runs of the ingest command and creations of Documents, one after another
InitCommand ==
    CommandInit /\ ChunkUnused /\ QueryUnused /\ FallbackUnused /\ CallsUnused

SpecCommand == InitCommand /\ [][CommandNext]_vars

Spec == SpecQuery

(***************************************************************************)
(* Properties of the chunker.                                              *)
(***************************************************************************)
\* the tokenizer accepted every sentence consumed so far (the try block of
\* chunk_text has not been left through its except clause)
NormalPath == cpc # "except"

\* the sentences of chunk i+1 that chunk i already held: each sentence is
\* appended once, at its position, so these are the seeded ones
Seeded(i) ==
    SelectSeq(chunks[i + 1].sents, LAMBDA p : p <= Last(chunks[i].sents))

\* the sentences chunk i adds to what the chunks before it hold
Fresh(i) ==
    IF i = 1 THEN chunks[1].sents
    ELSE SubSeq(chunks[i].sents,
                Len(GetOverlapChunk(chunks[i - 1].sents)) + 1,
                Len(chunks[i].sents))

RECURSIVE Rejoin(_)
Rejoin(n) == IF n = 0 THEN <<>> ELSE Rejoin(n - 1) \o Fresh(n)

\* C1: every chunk's token_count is at most chunk_size, unless the chunk is
\* exactly one sentence whose own token count exceeds chunk_size.
C1_TokenBudget ==
    \A i \in 1..Len(chunks) :
        \/ chunks[i].token_count <= chunk_size
        \/ /\ Len(chunks[i].sents) = 1
           /\ Tokens(chunks[i].sents[1]) > chunk_size

\* C2: the sentences seeded at the start of chunk i+1 are exactly the last
\* `overlap` sentences of chunk i (the configured overlap parameter), and none
\* when chunk i had <= overlap sentences.
C2_OverlapIsConfigured ==
    NormalPath =>
        \A i \in 1..(Len(chunks) - 1) :
            Seeded(i) = GetOverlapChunkConfigured(chunks[i].sents)

\* C3: the chunks' sentence lists, concatenated in order with the overlap
\* sentences at the start of each later chunk removed, are exactly the original
\* sentence sequence.
C3_RoundTrip ==
    cpc # "loop" => Rejoin(Len(chunks)) = Iota(Len(sentences))

\* a finished run of two chunks or more, the second starting with overlap
\* sentences of the first
C3_Witness ==
    /\ cpc = "returned"
    /\ Len(chunks) >= 2
    /\ Seeded(1) # <<>>

\* C4: a sentence whose own token count exceeds chunk_size is in a chunk that
\* holds that sentence alone.
C4_OversizedAlone ==
    NormalPath =>
        \A i \in 1..Len(chunks) :
            \A k \in 1..Len(chunks[i].sents) :
                Tokens(chunks[i].sents[k]) > chunk_size
                    => chunks[i].sents = <<chunks[i].sents[k]>>

(***************************************************************************)
(* Properties of the query endpoint.                                       *)
(***************************************************************************)
ProviderFailed(call) == call.outcome # "ok"

\* process_query raised: the embedder or the index failed
PipelineRaised == raised \in EmbeddingErrors \cup IndexErrors

\* process_query has returned a dictionary built from retrieved chunks
Assembled ==
    qpc \in {"respond", "done"} /\ ~PipelineRaised /\ relevant_chunks # <<>>

Clamp(x, lo, hi) == IF x < lo THEN lo ELSE IF x > hi THEN hi ELSE x

\* C5: the confidence of an answer is in [0, 1], whatever the similarity scores
\* in [-1, 1] of the retrieved units and whatever their number.
C5_ConfidenceInUnitInterval ==
    /\ result.confidence >= 0 /\ result.confidence <= ConfOne
    /\ response.confidence >= 0 /\ response.confidence <= ConfOne

\* C6: for n >= 1 retrieved units whose top-ranked unit has similarity max_sim,
\* the confidence is clamp(max_sim * min(n / 3, 1), 0, 1); similarities
\* [0.9, 0.6] give 0.6.
C6_ConfidenceFormula ==
    Assembled =>
        /\ result.confidence =
              Clamp(relevant_chunks[1].similarity_score
                        * Min(Len(relevant_chunks), FullFactorChunks),
                    0, ConfOne)
        /\ (/\ Len(relevant_chunks) = 2
            /\ relevant_chunks[1].similarity_score = 9
            /\ relevant_chunks[2].similarity_score = 6)
               => 10 * result.confidence = 6 * ConfOne

\* C7: retrieval returns at most top_k units, ordered by non-increasing
\* similarity, and the sources of the answer keep that order.
C7_RetrievalBoundedSorted ==
    /\ Len(relevant_chunks) <= request.top_k
    /\ \A k \in 1..(Len(relevant_chunks) - 1) :
          relevant_chunks[k].similarity_score
              >= relevant_chunks[k + 1].similarity_score
    /\ Assembled =>
          /\ Len(result.sources) = Len(relevant_chunks)
          /\ \A k \in 1..Len(relevant_chunks) :
                result.sources[k].chunk_id = relevant_chunks[k].chunk_id
    /\ (qpc = "done" /\ response.status = 200) =>
          response.sources = result.sources

\* an answered request whose scope holds more rows than top_k, of different
\* similarities
C7_Witness ==
    /\ qpc = "done"
    /\ response.status = 200
    /\ Cardinality(Matching(request.year)) > request.top_k
    /\ Len(response.sources) = request.top_k
    /\ Len(response.sources) >= 2
    /\ response.sources[1].relevance_score
          > response.sources[Len(response.sources)].relevance_score

\* C8: the tiers run in the order primary, secondary, fallback: the secondary
\* only after a failed primary, the fallback only after every available
\* provider was tried and failed, and a successful provider's text is returned
\* with no later tier invoked.
C8_TierOrder ==
    \A i \in 1..Len(invoked) :
        /\ invoked[i].tier = "primary" => i = 1
        /\ invoked[i].tier = "secondary" =>
              /\ i = 2
              /\ invoked[1].tier = "primary"
              /\ ProviderFailed(invoked[1])
        /\ invoked[i].tier = "fallback" =>
              /\ i > 1
              /\ invoked[1].tier = "primary"
              /\ \A j \in 1..(i - 1) : ProviderFailed(invoked[j])
              /\ openai_client =>
                    \E j \in 1..(i - 1) : invoked[j].tier = "secondary"
        /\ (invoked[i].tier # "fallback" /\ ~ProviderFailed(invoked[i])) =>
              /\ i = Len(invoked)
              /\ answer = ProviderText(invoked[i].tier)
              /\ qpc \in {"assemble", "respond", "done"}

\* the primary provider timed out, the secondary one answered, and its text is
\* the answer of the response
C8_Witness ==
    /\ qpc = "done"
    /\ invoked = <<[tier |-> "primary", outcome |-> "timeout"],
                   [tier |-> "secondary", outcome |-> "ok"]>>
    /\ response.status = 200
    /\ response.answer = ProviderText("secondary")

\* C9: when the primary provider fails and the configured secondary provider
\* fails too, generate_answer returns the extractive-fallback answer.
C9_BothFailGivesFallback ==
    (/\ qpc \in {"assemble", "respond", "done"}
     /\ Len(invoked) >= 2
     /\ ProviderFailed(invoked[1])
     /\ invoked[2].tier = "secondary"
     /\ ProviderFailed(invoked[2]))
        => answer = GenerateBasicResponse(relevant_chunks)

\* C10: once embedding and retrieval have succeeded, the request ends in a
\* success response carrying an answer, whatever the providers did.
C10_GenerationNeverFailsTheCall ==
    (qpc = "done" /\ request.valid /\ ~PipelineRaised)
        => /\ response.status = 200
           /\ response.answer.kind \notin {"none", "blank"}

(***************************************************************************)
(* Properties of the basic response.                                       *)
(***************************************************************************)
\* the units of the highest similarity score
TopUnits ==
    {k \in 1..Len(ranked_units) :
        \A j \in 1..Len(ranked_units) :
            ranked_units[j].sim <= ranked_units[k].sim}

\* the first-encountered unit of the highest similarity score
FirstTopUnit == CHOOSE k \in TopUnits : \A j \in TopUnits : k <= j

\* the first 300 characters of the text of the first top unit
First300 ==
    [part |-> "chunk_text", unit |-> FirstTopUnit,
     chars |-> IF ranked_units[FirstTopUnit].text_len < BasicPrefixChars
               THEN ranked_units[FirstTopUnit].text_len
               ELSE BasicPrefixChars]

\* every provider there is was called and failed
EveryProviderFailed ==
    /\ fpc = "returned"
    /\ \A i \in 1..Len(attempts) : ProviderFailed(attempts[i])

\* C11: when every provider fails, with ranked units the answer is the first
\* 300 characters of the text of the first-encountered unit of the highest
\* similarity followed by the ellipsis, with nothing else added; without any
\* unit it is the fixed message.
C11_PrefixAndEllipsisOnly ==
    EveryProviderFailed =>
        IF ranked_units = <<>>
        THEN answer_text = <<CouldNotFind>>
        ELSE answer_text = <<First300, Ellipsis>>

(***************************************************************************)
(* Properties of the request's outcome.                                    *)
(***************************************************************************)
\* the request went through validation, embedding and retrieval
Retrieved ==
    /\ request.valid
    /\ ~PipelineRaised
    /\ qpc \notin {"post", "embed", "retrieve"}

\* C12: a valid request whose retrieval returns no unit always ends
\* in HTTP 200 with the fixed "no relevant information" answer, no source and
\* confidence 0.
C12_NoUnitsAlways200 ==
    (Retrieved /\ relevant_chunks = <<>> /\ qpc = "done")
        => response = [status |-> 200, answer |-> NoRelevantInformation,
                       sources |-> <<>>, confidence |-> 0, error |-> ""]

\* C13: when the embedder or the index raises, the call fails as a unit: no
\* provider is invoked, no answer, source or confidence is produced, and the
\* response is the single failure outcome of the except branch.
C13_FailureIsAtomic ==
    PipelineRaised
        => /\ invoked = <<>>
           /\ answer = NoAnswer
           /\ result = NoResult
           /\ history = <<>>
           /\ qpc \in {"respond", "done"}
           /\ qpc = "done" =>
                 /\ response.status = 500
                 /\ response.answer = NoAnswer
                 /\ response.sources = <<>>
                 /\ response.confidence = 0

\* the index raised while rows of the requested year existed, and the request
\* ended in the failure response
C13_Witness ==
    /\ qpc = "done"
    /\ raised \in IndexErrors
    /\ Matching(request.year) # {}
    /\ response.status = 500
    /\ invoked = <<>>

\* the request as posted is malformed in one of the ways the serializer
\* fields state: query or year missing, query longer than 1000 characters,
\* top_k outside 1..20
Malformed(d) ==
    \/ ~d.query.given
    \/ ~d.year.given
    \/ d.query.value > MaxQueryLength
    \/ (d.top_k.given /\ (d.top_k.value < TopKMin \/ d.top_k.value > TopKMax))

\* C19: a malformed request is answered with HTTP 400 before the pipeline
\* runs: the embedder, the index and the providers are never called and no
\* history row is written.
C19_MalformedRejectedBeforePipeline ==
    (qpc # "post" /\ Malformed(request.data))
        => /\ qpc = "done"
           /\ response.status = 400
           /\ ~request.valid
           /\ raised = ""
           /\ relevant_chunks = <<>>
           /\ invoked = <<>>
           /\ result = NoResult
           /\ history = <<>>

\* a request whose only defect is a top_k of 21 was rejected
C19_Witness ==
    /\ qpc = "done"
    /\ request.data.query = Given(MaxQueryLength)
    /\ request.data.year.given
    /\ request.data.top_k = Given(TopKMax + 1)
    /\ response.status = 400

\* C20: a failed answer call returns the same response whatever raised: the
\* response of a failed call is the one any other cause would have produced.
C20_SameFailureWhateverCause ==
    (qpc = "done" /\ raised # "")
        => \A e \in EmbeddingErrors \cup IndexErrors \cup HistoryErrors :
              response = ExceptResponse(e)

(***************************************************************************)
(* Properties of the section label.                                        *)
(***************************************************************************)
\* the keyword is in the text of the chunk, whatever the case of its letters
OccursIn(keyword, chunk) ==
    \E k \in 1..Len(chunk.sents) :
        \E ph \in words[chunk.sents[k]] :
            \/ ph.phrase = keyword
            \/ (ph.phrase = "marketing" /\ keyword = "market")

\* the labels one of whose keywords is in the text of the chunk
LabelsOf(chunk) ==
    {k \in 1..Len(SectionKeywords) :
        \E keyword \in SectionKeywords[k].keywords : OccursIn(keyword, chunk)}

\* C18: every returned chunk carries the first label, in priority order, one
\* of whose keywords occurs in its text whatever the case, and Other when
\* none occurs.
C18_SectionLabel ==
    cpc \in {"returned", "except"} =>
        \A c \in 1..Len(chunks) :
            /\ chunks[c].section \in {"MD&A", "Financial Statements",
                                      "Risk Factors", "Business Overview",
                                      "Other"}
            /\ \A k \in LabelsOf(chunks[c]) :
                  (\A j \in LabelsOf(chunks[c]) : k <= j)
                      => chunks[c].section = SectionKeywords[k].section
            /\ LabelsOf(chunks[c]) = {} => chunks[c].section = "Other"

(***************************************************************************)
(* Properties of process_document.                                         *)
(***************************************************************************)
\* the chunk of enumerate index j of this call is in table chunks and has
\* its embedding
Written(j) ==
    \E r \in 1..Len(chunk_rows) :
        /\ chunk_rows[r].document_id = Len(documents)
        /\ chunk_rows[r].chunk_index = j
        /\ r \in embedding_rows

\* the call ended on a failure of the chunk of index chunk_i
FailedOnChunk ==
    /\ ipc = "done"
    /\ ingest_result.error \in {"store chunk", "embedding", "store embedding"}

\* C14: a failure on chunk i is confined to chunk i: the chunks before it
\* stay stored with their embeddings and every chunk after it is still
\* embedded and written.
C14_FailureConfinedToChunk ==
    FailedOnChunk =>
        \A j \in 0..(Len(chunks) - 1) : j # chunk_i => Written(j)

\* C15: in every state each stored chunk has its stored embedding and each
\* stored embedding is that of a stored chunk.
C15_ChunkEmbeddingOneToOne ==
    /\ \A c \in 1..Len(chunk_rows) : c \in embedding_rows
    /\ \A e \in embedding_rows : e \in 1..Len(chunk_rows)

\* the rows of table chunks of document d, in the order written
RowsOf(d) ==
    LET OfDocument(row) == row.document_id = d
    IN SelectSeq(chunk_rows, OfDocument)

\* the k-th row written for a document has index k - 1 and is the k-th chunk
\* chunk_text returned; after a success every chunk has its row
OrdinalsInOrder ==
    /\ \A d \in 1..Len(documents) :
          \A k \in 1..Len(RowsOf(d)) :
              /\ RowsOf(d)[k].chunk_index = k - 1
              /\ RowsOf(d)[k].chunk = k
    /\ (ipc = "done" /\ ingest_result.success)
          => Len(RowsOf(Len(documents))) = Len(chunks)

\* a step leaves every row of table chunks as it is
RowsKept ==
    /\ Len(chunk_rows') >= Len(chunk_rows)
    /\ \A r \in 1..Len(chunk_rows) : chunk_rows'[r] = chunk_rows[r]

\* C16: the chunk rows of a document carry the indexes 0, 1, 2, ... without
\* gap or repeat, in the order the chunker produced the chunks and in the
\* order they are written, and no step changes a row once written.
C16_OrdinalsContiguousStable == [](OrdinalsInOrder) /\ [][RowsKept]_vars

\* three chunks were stored under the indexes 0, 1 and 2 and the call
\* succeeded
C16_Witness ==
    /\ ipc = "done"
    /\ ingest_result.success
    /\ Len(chunks) = 3
    /\ [r \in 1..Len(chunk_rows) |-> chunk_rows[r].chunk_index] = <<0, 1, 2>>

\* the text has no character but white space
Blank(t) == \A k \in 1..Len(t) : t[k] = " "

\* C17: when the fetched text is empty or white space only, chunk_text
\* returns no chunk (and does not raise), process_document reports a success
\* of zero chunks, and no chunk row and no embedding row is written.
C17_BlankTextZeroChunks ==
    (/\ ipc \in {"chunked", "embed", "update", "done"}
     /\ documents # <<>>
     /\ Blank(text))
        => /\ chunks = <<>>
           /\ cpc # "except"
           /\ chunk_rows = <<>>
           /\ embedding_rows = {}
           /\ ipc # "embed"
           /\ ipc = "done" =>
                 ingest_result = [success |-> TRUE, chunk_count |-> 0,
                                  error |-> ""]

\* a text of white space only was ingested with success and zero chunks
C17_Witness ==
    /\ ipc = "done"
    /\ Len(text) >= 2
    /\ Blank(text)
    /\ documents # <<>>
    /\ ingest_result.success
    /\ ingest_result.chunk_count = 0
    /\ chunk_rows = <<>>

(***************************************************************************)
(* Properties of the query history.                                        *)
(***************************************************************************)
\* C24: a QueryHistory row exists for exactly the requests answered with
\* HTTP 200: once the request is over, total_queries counts it if and only
\* if its response is a 200.
C24_HistoryOnlyForSuccess ==
    qpc = "done" => (TotalQueries = 1 <=> response.status = 200)

(***************************************************************************)
(* Properties of concurrent POSTs.                                         *)
(***************************************************************************)
\* what tier t answered call c with, "none" when the call never reached it
OutcomeOf(c, t) ==
    IF \E k \in 1..Len(calls[c].invoked) : calls[c].invoked[k].tier = t
    THEN LET k == CHOOSE j \in 1..Len(calls[c].invoked) :
                      calls[c].invoked[j].tier = t
         IN calls[c].invoked[k].outcome
    ELSE "none"

\* the answer generate_answer gives a call run alone on the chunks cs, given
\* what the providers answer
AnswerAlone(cs, ollama, openai) ==
    IF ollama = "ok" THEN ProviderText("primary")
    ELSE IF openai_client
         THEN IF openai = "ok" THEN ProviderText("secondary") ELSE BlankText
         ELSE GenerateBasicResponse(cs)

\* the response a call returns when it is the only one running, given what
\* its collaborators did: the embedder, the index or the history table raised
\* e ("" for none), the index returned cs, the providers answered ollama and
\* openai
ResponseAlone(e, cs, ollama, openai) ==
    IF e # "" THEN ExceptResponse(e)
    ELSE IF cs = <<>>
         THEN [status |-> 200, answer |-> NoRelevantInformation,
               sources |-> <<>>, confidence |-> 0, error |-> ""]
         ELSE IF AnswerAlone(cs, ollama, openai) = BlankText
              THEN [NoResponse EXCEPT !.status = 500, !.error = "serializer"]
              ELSE [status |-> 200,
                    answer |-> AnswerAlone(cs, ollama, openai),
                    sources |-> FormatSources(cs),
                    confidence |-> CalculateConfidence(cs), error |-> ""]

\* C21: whatever the interleaving of the steps of the two POSTs, each one
\* ends with the response it returns when run alone on the same index with
\* the same collaborator outcomes.
C21_ConcurrentCallsIndependent ==
    \A c \in Calls :
        calls[c].pc = "done"
            => calls[c].response =
                   ResponseAlone(calls[c].raised, calls[c].relevant_chunks,
                                 OutcomeOf(c, "primary"),
                                 OutcomeOf(c, "secondary"))

\* both POSTs are in progress at once, each with its dictionary built and
\* its response still to send: they asked for different years and got
\* different answers, one of the primary provider, one of the secondary
C21_Witness ==
    /\ calls[1].pc = "respond"
    /\ calls[2].pc = "respond"
    /\ calls[1].year # calls[2].year
    /\ calls[1].result.answer = ProviderText("primary")
    /\ calls[2].result.answer = ProviderText("secondary")
    /\ calls[1].result.sources # calls[2].result.sources

(***************************************************************************)
(* Properties of the tracked Documents and of the ingest command.          *)
(***************************************************************************)
\* no two Documents have the same company and year
OnePerCompanyYear ==
    \A j, k \in 1..Len(django_docs) :
        (/\ django_docs[j].company = django_docs[k].company
         /\ django_docs[j].year = django_docs[k].year) => j = k

\* a step of the command: each moves handle or its call of process_document
CommandStep == ~UNCHANGED <<cmd_pc, todo, ipc>>

\* a step of populate_embeddings: each moves it or shortens its list
PopulateStep == ~UNCHANGED <<ppc, chunks_to_process>>

\* a step that is a Document.objects.create of a pair that is there already
\* raises and leaves the Documents as they are, whether the command is
\* running or not
DuplicateCreateFails ==
    (/\ ~CommandStep
     /\ ~PopulateStep
     /\ Tracked(django_docs, last_create'.company, last_create'.year))
        => /\ last_create'.outcome = "IntegrityError"
           /\ django_docs' = django_docs

\* C22: after any sequence of Document creations and command runs there is
\* at most one Document per (company, year), and creating a second one of a
\* pair fails and leaves the Documents unchanged.
C22_OneDocumentPerCompanyYear ==
    [](OnePerCompanyYear) /\ [][DuplicateCreateFails]_vars

\* after a run of the command, the creation of a Document of a pair the
\* command had created was refused, with two Documents there
C22_Witness ==
    /\ Len(runs) >= 1
    /\ cmd_pc = "idle"
    /\ Len(django_docs) >= 2
    /\ last_create.outcome = "IntegrityError"
    /\ \E k \in 1..Len(django_docs) :
          /\ django_docs[k].company = last_create.company
          /\ django_docs[k].year = last_create.year
          /\ django_docs[k].status # "pending"

\* the Document of Apple Inc. of the year
DocumentOf(year) ==
    django_docs[CHOOSE k \in 1..Len(django_docs) :
                    /\ django_docs[k].company = "Apple Inc."
                    /\ django_docs[k].year = year]

\* C23: a year the command has processed with success has its Document in
\* status 'completed' with the chunk_count of the chunks written for it
\* (and so no later ingest of another year has touched it).
C23_StatusOnTheProcessedDocument ==
    \A k \in 1..Len(output) :
        output[k].outcome = "processed"
            => /\ DocumentOf(output[k].year).status = "completed"
               /\ DocumentOf(output[k].year).chunk_count
                      = output[k].chunk_count

\* the stored state: the Documents and the three tables
Stored == <<django_docs, documents, chunk_rows, embedding_rows>>

\* a step of the loop on an entry whose Document exists leaves the stored
\* state as it is and does not enter process_document
SkipLeavesStored ==
    (/\ cmd_pc = "loop"
     /\ todo # <<>>
     /\ Tracked(django_docs, "Apple Inc.", Head(todo))
     /\ CommandStep)
        => /\ Stored' = Stored
           /\ cmd_pc' # "process"

\* the command is running again with the --year of its previous run
SameRunAgain ==
    /\ Len(runs) >= 2
    /\ cmd_pc # "idle"
    /\ runs[Len(runs)].year = runs[Len(runs) - 1].year

\* a step of the command leaves as it is the Document of every entry
\* still to come that has one already, and that the loop will skip
LaterEntriesUntouched ==
    CommandStep =>
        \A y \in Years :
            (/\ \E i \in 2..Len(todo) : todo[i] = y
             /\ Tracked(django_docs, "Apple Inc.", y))
                => DocumentOf(y)' = DocumentOf(y)

\* C25: the command run on a (company, year) whose Document exists skips
\* it, whatever its status: the run writes no document, chunk or embedding
\* for it and leaves its status as it was, and so a run of the command
\* after a run of the same command leaves the stored state as the first
\* run left it.
C25_SecondRunChangesNothing ==
    [][/\ SkipLeavesStored
       /\ LaterEntriesUntouched
       /\ (SameRunAgain /\ CommandStep) => Stored' = Stored]_vars

====
